---------------------------- MODULE Spec2Model ----------------------------
(***************************************************************************)
(* A model of src/app.py, the dragon-tiger-list dashboard: format_number,  *)
(* get_lhb_data behind st.cache_data(ttl=3600), find_latest_data and main. *)
(*                                                                         *)
(* Values.  A cell of a data frame is a record [kind, v]: kind "num" is a  *)
(* number (amounts are whole yuan), "str" a string that parses as the      *)
(* number v, "bad" a string that does not parse, "nan" a float NaN and     *)
(* "none" Python's None.  A data frame is a sequence of rows.  What a call *)
(* of the data source gives is a record [status, rows]: status "raise" is  *)
(* an exception, "none" the value None, "df" a frame (possibly empty).     *)
(* A date is a day number; today - timedelta(days=i) is Today - i.         *)
(***************************************************************************)
EXTENDS Integers, Sequences, FiniteSets, TLC

VARIABLES
    \* --- format_number, applied to one input
    fmt_in, fmt_out,
    \* --- find_latest_data, run against one assignment of probe outcomes
    probe, scan,
    \* --- the ranking part of main, applied to one disclosure frame
    rank_df, rank_view,
    \* --- the page: main, rerun on every page load
    pc,           \* position of main in the current run
    runs,         \* page loads so far
    clock,        \* seconds since the process started
    ticks,        \* clock advances so far
    cache,        \* st.cache_data's store of get_lhb_data: date -> entry
    button,       \* st.button("开始 AI 分析") of the current run
    date_str,     \* <<>> for None, <<d>> for the resolved date
    data,         \* (detail_df, jg_df, yyb_df) of the current run
    ui,           \* elements rendered in the current run, in order
    shown,        \* what the metrics, the card and the table display
    src,          \* what the data source answered to get_lhb_data's calls
    fetches,      \* the data-source calls get_lhb_data issued in this run
    last_fetch,   \* date -> when the body of get_lhb_data last ran, and its result
    secrets,      \* st.secrets as read by the AI panel
    ai_requests,  \* chat-completion requests issued in this run
    ai_outcome    \* how the AI panel ended in this run

vars == <<fmt_in, fmt_out, probe, scan, rank_df, rank_view, pc, runs, clock,
          ticks, cache, button, date_str, data, ui, shown, src, fetches,
          last_fetch, secrets, ai_requests, ai_outcome>>

fmtVars == <<fmt_in, fmt_out>>
scanVars == <<probe, scan>>
rankVars == <<rank_df, rank_view>>
pageVars == <<pc, runs, clock, ticks, cache, button, date_str, data, ui,
              shown, src, fetches, last_fetch, secrets, ai_requests,
              ai_outcome>>

---------------------------------------------------------------------------
(* Program constants *)

Yi == 100000000
Wan == 10000
Horizon == 10
TTL == 3600
TopN == 10

(* Bounds of the model *)

Today == 20          \* the day number of datetime.now()
FmtSpread == 3       \* format_number inputs lie this close around each pivot
MaxRows == 3         \* rows of the enumerated disclosure frames
MaxRuns == 2         \* page loads
MaxTicks == 2        \* clock advances
MaxHitOffset == 1    \* the page's scans hit at offsets 0..MaxHitOffset

---------------------------------------------------------------------------
(* Cells *)

Num(v) == [kind |-> "num", v |-> v]
StrNum(v) == [kind |-> "str", v |-> v]
BadStr == [kind |-> "bad", v |-> 0]
NaN == [kind |-> "nan", v |-> 0]
None == [kind |-> "none", v |-> 0]

\* pd.isna(x) of a scalar
isna(x) == x.kind \in {"nan", "none"}

Min(a, b) == IF a < b THEN a ELSE b

\* A printed number: whole.frac (frac in hundredths, with the sign on
\* whole) to the given number of decimals, followed by the unit ("yi" is
\* the suffix 亿, "wan" the suffix 万).
Text(whole, frac, decimals, unit) ==
    [whole |-> whole, frac |-> frac, decimals |-> decimals, unit |-> unit]

\* f"{n / d:.2f}" followed by the unit, for n >= 0 and d a multiple of 100:
\* n / d rounded to hundredths.  (At an exact decimal tie the binary
\* double decides; the inputs of the model have none.)
Fixed2(n, d, unit) ==
    LET h == d \div 100
        q == n \div h
        r == n % h
        hundredths == IF 2 * r > h THEN q + 1
                      ELSE IF 2 * r < h THEN q
                      ELSE IF q % 2 = 0 THEN q ELSE q + 1
    IN  Text(hundredths \div 100, hundredths % 100, 2, unit)

format_number(num) ==
    IF isna(num) THEN Text(0, 0, 0, "")
    ELSE IF num.v >= Yi THEN Fixed2(num.v, Yi, "yi")
    ELSE IF num.v >= Wan THEN Fixed2(num.v, Wan, "wan")
    ELSE Text(num.v, 0, 2, "")

---------------------------------------------------------------------------
(* format_number applied to one input *)

Pivots == {0, 5000, Wan, 12345678, 50000000, Yi, 120000000}

FormatInputs ==
    {NaN, None} \cup
    {Num(s * (b + d)) : s \in {-1, 1}, b \in Pivots, d \in (-FmtSpread)..FmtSpread}

FormatCall ==
    /\ fmt_out = <<>>
    /\ fmt_out' = <<format_number(fmt_in)>>
    /\ UNCHANGED <<fmt_in, scanVars, rankVars, pageVars>>

---------------------------------------------------------------------------
(* find_latest_data *)

\* What the probe of one candidate date gives: an exception, an empty
\* result (None or an empty frame: both fail the test of line 69 without
\* raising) or a non-empty frame.
ProbeOutcomes == {"error", "empty", "nonempty"}

Offsets == 0..(Horizon - 1)

\* check_date.weekday(), Monday = 0; day number 0 is a Monday
weekday(d) == d % 7

NotFound(probes) ==
    [date |-> <<>>, display |-> <<>>, probes |-> probes, raised |-> FALSE]

\* The loop of lines 56-72 from iteration i on; probes are the dates
\* already probed, in the order of the calls.
RECURSIVE scan_from(_, _, _)
scan_from(p, i, probes) ==
    IF i >= Horizon THEN NotFound(probes)
    ELSE LET check_date == Today - i
             asked == Append(probes, check_date)
         IN  IF p[i] = "nonempty"
             THEN [date |-> <<check_date>>,
                   display |-> <<check_date, weekday(check_date)>>,
                   probes |-> asked, raised |-> FALSE]
             ELSE scan_from(p, i + 1, asked)

\* Mutant: an exception of the probe is not caught.
RECURSIVE scan_error_fatal(_, _, _)
scan_error_fatal(p, i, probes) ==
    IF i >= Horizon THEN NotFound(probes)
    ELSE LET check_date == Today - i
             asked == Append(probes, check_date)
         IN  IF p[i] = "nonempty"
             THEN [date |-> <<check_date>>,
                   display |-> <<check_date, weekday(check_date)>>,
                   probes |-> asked, raised |-> FALSE]
             ELSE IF p[i] = "error"
             THEN [date |-> <<>>, display |-> <<>>, probes |-> asked,
                   raised |-> TRUE]
             ELSE scan_error_fatal(p, i + 1, asked)

find_latest_data_error_fatal(p) == scan_error_fatal(p, 0, <<>>)

\* Mutant: the scan remembers the first hit but goes on to the horizon.
RECURSIVE scan_no_return(_, _, _, _)
scan_no_return(p, i, probes, hit) ==
    IF i >= Horizon
    THEN IF hit = <<>> THEN NotFound(probes)
         ELSE [date |-> hit, display |-> <<hit[1], weekday(hit[1])>>,
               probes |-> probes, raised |-> FALSE]
    ELSE scan_no_return(p, i + 1, Append(probes, Today - i),
                        IF hit = <<>> /\ p[i] = "nonempty"
                        THEN <<Today - i>> ELSE hit)

find_latest_data_no_return(p) == scan_no_return(p, 0, <<>>, <<>>)

find_latest_data(p) == scan_from(p, 0, <<>>)

ScanRun ==
    /\ scan = <<>>
    /\ scan' = <<find_latest_data(probe)>>
    /\ UNCHANGED <<probe, fmtVars, rankVars, pageVars>>

---------------------------------------------------------------------------
(* Ranking: lines 100, 129-137 and 153-162 of main *)

\* pd.to_numeric(x, errors='coerce') of one cell
to_numeric(x) ==
    IF x.kind \in {"num", "str"} THEN Num(x.v) ELSE NaN

\* Line 130: the net-buy column is replaced by its numeric coercion.
coerce(df) == [i \in 1..Len(df) |-> [df[i] EXCEPT !.net = to_numeric(@)]]

\* Mutant of line 100: the rows are counted, not the codes.
total_stocks_rows(df) == Len(df)

\* Line 100: len(detail_df['代码'].unique())
total_stocks(df) == Cardinality({df[i].code : i \in 1..Len(df)})

NumIdx(df) == {i \in 1..Len(df) : df[i].net.kind = "num"}
NanIdx(df) == {i \in 1..Len(df) : df[i].net.kind # "num"}

\* The elements of a set of row positions, ascending.
RECURSIVE Ascending(_)
Ascending(S) ==
    IF S = {} THEN <<>>
    ELSE LET m == CHOOSE x \in S : \A y \in S : x <= y
         IN  <<m>> \o Ascending(S \ {m})

\* The positions S in every order that is descending by net-buy.
RECURSIVE Descending(_, _)
Descending(df, S) ==
    IF S = {} THEN {<<>>}
    ELSE LET top == {i \in S : \A j \in S : df[i].net.v >= df[j].net.v}
         IN  UNION {{<<i>> \o t : t \in Descending(df, S \ {i})} : i \in top}

\* df.sort_values(by='龙虎榜净买额', ascending=False), as the row positions
\* in their new order: every order the call may give.  The rows with a
\* number come first, descending; kind is left at its default, quicksort,
\* which is not a stable sort, so rows with equal values come in an order
\* the library does not fix.  The rows with NaN follow (na_position
\* defaults to 'last') in their original order.
sort_values(df) == {o \o Ascending(NanIdx(df)) : o \in Descending(df, NumIdx(df))}

\* .head(n)
head(s, n) == SubSeq(s, 1, Min(n, Len(s)))

\* What lines 132-162 display of the frame df (already coerced) sorted
\* into order o: the top entry and the table of the first TopN rows with
\* the net-buy column formatted.
ranking(df, o) ==
    [order |-> head(o, TopN),
     top1 |-> [code |-> df[o[1]].code,
               net |-> format_number(df[o[1]].net)],
     top10 |-> [k \in 1..Min(TopN, Len(o)) |->
                   [code |-> df[o[k]].code,
                    net |-> format_number(df[o[k]].net)]]]

Codes == {"600001", "600002"}
NetCells == {Num(5), Num(100), Num(-3), StrNum(100), BadStr}
Rows == [code : Codes, net : NetCells]

RECURSIVE Frames(_)
Frames(n) ==
    IF n = 0 THEN {<<>>}
    ELSE LET shorter == Frames(n - 1)
         IN  shorter \cup {Append(f, r) : f \in {g \in shorter : Len(g) = n - 1},
                                          r \in Rows}

\* A day of 12 disclosure rows over 11 codes: more rows than the table
\* holds, one stock listed twice, two rows with equal net-buy and one
\* unparseable cell.
Day12Codes == <<"000001", "000002", "000003", "000004", "000005", "000006",
                "000007", "000008", "000009", "000010", "000011", "000003">>
Day12Nets == <<Num(700), Num(-40), Num(120000000), Num(55000), BadStr,
               Num(9000), Num(55000), Num(31), Num(-250000000), Num(4000),
               StrNum(860000), Num(1200)>>
Day12 == [i \in 1..12 |-> [code |-> Day12Codes[i], net |-> Day12Nets[i]]]

RankFrames == (Frames(MaxRows) \ {<<>>}) \cup {Day12}

RankCall ==
    /\ rank_view = <<>>
    /\ \E o \in sort_values(coerce(rank_df)) :
         rank_view' = <<[total_stocks |-> total_stocks(rank_df),
                         rank |-> ranking(coerce(rank_df), o)]>>
    /\ UNCHANGED <<rank_df, fmtVars, scanVars, pageVars>>

---------------------------------------------------------------------------
(* The data source and get_lhb_data *)

Frame(rows) == [status |-> "df", rows |-> rows]
NoneFrame == [status |-> "none", rows |-> <<>>]
Raised == [status |-> "raise", rows |-> <<>>]
NotCalled == [status |-> "skipped", rows |-> <<>>]

\* df is None or df.empty
none_or_empty(f) == f.status = "none" \/ f.rows = <<>>

AllNone == [detail_df |-> NoneFrame, jg_df |-> NoneFrame, yyb_df |-> NoneFrame]

NoAnswers == [detail |-> NotCalled, jg |-> NotCalled, yyb |-> NotCalled]

\* Mutant of line 38: an empty disclosure frame is not turned away.
get_lhb_data_no_empty_check(a) ==
    IF a.detail.status = "raise"
    THEN [value |-> AllNone, error |-> TRUE, calls |-> <<"detail">>,
          answered |-> [NoAnswers EXCEPT !.detail = a.detail]]
    ELSE IF a.jg.status = "raise"
    THEN [value |-> AllNone, error |-> TRUE, calls |-> <<"detail", "jg">>,
          answered |-> [a EXCEPT !.yyb = NotCalled]]
    ELSE IF a.yyb.status = "raise"
    THEN [value |-> AllNone, error |-> TRUE,
          calls |-> <<"detail", "jg", "yyb">>, answered |-> a]
    ELSE [value |-> [detail_df |-> a.detail, jg_df |-> a.jg, yyb_df |-> a.yyb],
          error |-> FALSE, calls |-> <<"detail", "jg", "yyb">>, answered |-> a]

\* The body of get_lhb_data (lines 35-50) when the data source answers its
\* calls with a: the returned triple, whether st.error was shown, the calls
\* issued in order, and the answers that were actually asked for.
get_lhb_data(a) ==
    IF a.detail.status = "raise"
    THEN [value |-> AllNone, error |-> TRUE, calls |-> <<"detail">>,
          answered |-> [NoAnswers EXCEPT !.detail = a.detail]]
    ELSE IF none_or_empty(a.detail)
    THEN [value |-> AllNone, error |-> FALSE, calls |-> <<"detail">>,
          answered |-> [NoAnswers EXCEPT !.detail = a.detail]]
    ELSE IF a.jg.status = "raise"
    THEN [value |-> AllNone, error |-> TRUE, calls |-> <<"detail", "jg">>,
          answered |-> [a EXCEPT !.yyb = NotCalled]]
    ELSE IF a.yyb.status = "raise"
    THEN [value |-> AllNone, error |-> TRUE,
          calls |-> <<"detail", "jg", "yyb">>, answered |-> a]
    ELSE [value |-> [detail_df |-> a.detail, jg_df |-> a.jg, yyb_df |-> a.yyb],
          error |-> FALSE, calls |-> <<"detail", "jg", "yyb">>, answered |-> a]

(* st.cache_data(ttl=3600): entries keyed by the argument date_str, each
   valid until TTL seconds after it was stored *)

Dates == (Today - Horizon + 1)..Today

NoEntry == [present |-> FALSE, value |-> AllNone, error |-> FALSE, expires |-> 0]

\* Mutant: an entry never expires.
cache_hit_no_expiry(c, key, now) == c[key].present

cache_hit(c, key, now) == c[key].present /\ now < c[key].expires

cache_put(c, key, r, now) ==
    [c EXCEPT ![key] = [present |-> TRUE, value |-> r.value,
                        error |-> r.error, expires |-> now + TTL]]

---------------------------------------------------------------------------
(* The metrics: lines 102-111 *)

RECURSIVE SumOf(_, _)
SumOf(rows, keep) ==
    IF rows = <<>> THEN 0
    ELSE (IF keep[1] THEN rows[1].buy ELSE 0) + SumOf(Tail(rows), Tail(keep))

jg_buy_total(jg_df) ==
    IF ~none_or_empty(jg_df)
    THEN SumOf(jg_df.rows, [i \in 1..Len(jg_df.rows) |-> TRUE])
    ELSE 0

\* str.contains(pat) of one name; names and patterns are sequences of
\* characters.
contains(name, pat) ==
    \E i \in 1..(Len(name) - Len(pat) + 1) :
        SubSeq(name, i, i + Len(pat) - 1) = pat

\* The marker '股通' of line 110
GuTong == <<"gu", "tong">>

waizi_buy_total(yyb_df) ==
    IF ~none_or_empty(yyb_df)
    THEN SumOf(yyb_df.rows,
               [i \in 1..Len(yyb_df.rows) |-> contains(yyb_df.rows[i].name, GuTong)])
    ELSE 0

\* What lines 98-176 display of the loaded triple d, the disclosure frame
\* sorted into order o.
render(d, o) ==
    [total_stocks |-> total_stocks(d.detail_df.rows),
     jg_buy |-> format_number(Num(jg_buy_total(d.jg_df))),
     waizi_buy |-> format_number(Num(waizi_buy_total(d.yyb_df))),
     rank |-> ranking(coerce(d.detail_df.rows), o)]

Rendered == <<"metrics", "top1", "table", "caption", "ai_button">>

---------------------------------------------------------------------------
(* The AI panel: lines 185-270 *)

\* st.secrets: whether a secrets file exists, holds an [openai] section,
\* and the section holds api_key and base_url.
SecretsConfigs ==
    {s \in [file : BOOLEAN, section : BOOLEAN, api_key : BOOLEAN,
            base_url : BOOLEAN] :
        /\ s.section => s.file
        /\ (s.api_key \/ s.base_url) => s.section}

Unread == [file |-> FALSE, section |-> FALSE, api_key |-> FALSE, base_url |-> FALSE]

\* How the OpenAI library answers: building the client raises, the request
\* raises, or a completion comes back.
AiAnswers == {"client_raise", "request_raise", "ok"}

Failure(n) == [ui |-> <<"ai_failure">>, requests |-> n, outcome |-> "failure"]

\* Mutant: a failed request is tried once more.
ai_panel_retry(s, env) ==
    IF ~s.file \/ ~s.section
    THEN [ui |-> <<"ai_config_error", "ai_config_example">>, requests |-> 0,
          outcome |-> "config_missing"]
    ELSE IF ~s.api_key \/ ~s.base_url THEN Failure(0)
    ELSE IF env = "client_raise" THEN Failure(0)
    ELSE IF env = "request_raise" THEN Failure(2)
    ELSE [ui |-> <<"ai_success", "ai_heading", "ai_result">>, requests |-> 1,
          outcome |-> "result"]

\* The button's branch once clicked: the elements added to the page, the
\* chat-completion requests issued, and how it ended.  Lines 187-192: the
\* configuration counts as missing when reading st.secrets raises (no
\* file) or holds no "openai" section.  Lines 244-248: reading a key the
\* section does not hold raises KeyError inside the try.
ai_panel(s, env) ==
    IF ~s.file \/ ~s.section
    THEN [ui |-> <<"ai_config_error", "ai_config_example">>, requests |-> 0,
          outcome |-> "config_missing"]
    ELSE IF ~s.api_key \/ ~s.base_url THEN Failure(0)
    ELSE IF env = "client_raise" THEN Failure(0)
    ELSE IF env = "request_raise" THEN Failure(1)
    ELSE [ui |-> <<"ai_success", "ai_heading", "ai_result">>, requests |-> 1,
          outcome |-> "result"]

---------------------------------------------------------------------------
(* main, one run per page load *)

\* The probe outcomes the page's scans meet: a hit at offset h after misses
\* of one kind, or no hit within the horizon.
ProbeScenarios ==
    {[i \in Offsets |-> IF i < h THEN m ELSE IF i = h THEN "nonempty" ELSE "empty"] :
        h \in 0..MaxHitOffset, m \in {"empty", "error"}}
    \cup {[i \in Offsets |-> m] : m \in {"empty", "error"}}

Day2 == <<[code |-> "600001", net |-> Num(100)],
          [code |-> "600001", net |-> Num(100)]>>

JgSample == <<[buy |-> 30000000], [buy |-> 20000000]>>

Connect == <<"hu", "gu", "tong", "zhuan", "yong">>
Branch == <<"zheng", "quan", "ying", "ye", "bu">>
YybSample == <<[name |-> Connect, buy |-> 70000000],
               [name |-> Branch, buy |-> 900000000],
               [name |-> <<"shen">> \o Tail(Connect), buy |-> 50000000],
               [name |-> Branch, buy |-> 10000],
               [name |-> <<"gu">> \o Branch, buy |-> 3000000]>>

Answers ==
    [detail : {Raised, NoneFrame, Frame(<<>>), Frame(Day12)},
     jg : {Raised, NoneFrame, Frame(<<>>), Frame(JgSample)},
     yyb : {Raised, NoneFrame, Frame(<<>>), Frame(YybSample)}]

\* Lines 78-88: a page load starts the script; find_latest_data runs
\* against the probe outcomes p; click tells whether this run was set off
\* by the AI button.
MainResolve(click, p) ==
    /\ pc \in {"idle", "done"}
    /\ runs < MaxRuns
    /\ runs' = runs + 1
    /\ button' = click
    /\ LET r == find_latest_data(p)
       IN  /\ date_str' = r.date
           /\ IF r.raised
              THEN ui' = <<"title", "exception">> /\ pc' = "done"
              ELSE IF r.date = <<>>
              THEN ui' = <<"title", "error_no_day">> /\ pc' = "done"
              ELSE ui' = <<"title", "success_date">> /\ pc' = "load"
    /\ data' = AllNone
    /\ shown' = <<>>
    /\ src' = NoAnswers
    /\ fetches' = <<>>
    /\ secrets' = Unread
    /\ ai_requests' = 0
    /\ ai_outcome' = "none"
    /\ UNCHANGED <<clock, ticks, cache, last_fetch, fmtVars, scanVars, rankVars>>

\* Lines 91-96: get_lhb_data(date_str) behind the cache.  A hit gives the
\* stored triple (and replays the st.error the stored call showed) without
\* running the body; a miss runs the body against the answers a and stores
\* what it returned.
MainLoad(a) ==
    /\ pc = "load"
    /\ LET d == date_str[1]
       IN  IF cache_hit(cache, d, clock)
           THEN /\ data' = cache[d].value
                /\ ui' = ui \o (IF cache[d].error THEN <<"error_fetch">> ELSE <<>>)
                            \o (IF cache[d].value.detail_df.status = "none"
                                THEN <<"error_no_detail">> ELSE <<>>)
                /\ pc' = IF cache[d].value.detail_df.status = "none"
                         THEN "done" ELSE "render"
                /\ src' = NoAnswers
                /\ fetches' = <<>>
                /\ UNCHANGED <<cache, last_fetch>>
           ELSE LET r == get_lhb_data(a)
                IN  /\ data' = r.value
                    /\ ui' = ui \o (IF r.error THEN <<"error_fetch">> ELSE <<>>)
                                \o (IF r.value.detail_df.status = "none"
                                    THEN <<"error_no_detail">> ELSE <<>>)
                    /\ pc' = IF r.value.detail_df.status = "none"
                             THEN "done" ELSE "render"
                    /\ src' = r.answered
                    /\ fetches' = r.calls
                    /\ cache' = cache_put(cache, d, r, clock)
                    /\ last_fetch' = [last_fetch EXCEPT ![d] = [at |-> clock, value |-> r.value]]
    /\ UNCHANGED <<runs, clock, ticks, button, date_str, shown, secrets,
                   ai_requests, ai_outcome, fmtVars, scanVars, rankVars>>

\* Lines 98-185: the metrics, the top entry, the table and the button.
\* (.iloc[0] of an empty frame raises IndexError.)
MainRender ==
    /\ pc = "render"
    /\ IF data.detail_df.rows = <<>>
       THEN /\ shown' = <<>>
            /\ ui' = ui \o <<"metrics", "exception">>
            /\ pc' = "done"
       ELSE /\ \E o \in sort_values(coerce(data.detail_df.rows)) :
                 shown' = <<render(data, o)>>
            /\ ui' = ui \o Rendered
            /\ pc' = IF button THEN "ai" ELSE "done"
    /\ UNCHANGED <<runs, clock, ticks, cache, button, date_str, data, src,
                   fetches, last_fetch, secrets, ai_requests, ai_outcome,
                   fmtVars, scanVars, rankVars>>

\* Lines 185-270, the button clicked: st.secrets reads as s and the OpenAI
\* library answers env.
MainAI(s, env) ==
    /\ pc = "ai"
    /\ LET r == ai_panel(s, env)
       IN  /\ ui' = ui \o r.ui
           /\ ai_requests' = r.requests
           /\ ai_outcome' = r.outcome
    /\ secrets' = s
    /\ pc' = "done"
    /\ UNCHANGED <<runs, clock, ticks, cache, button, date_str, data, shown,
                   src, fetches, last_fetch, fmtVars, scanVars, rankVars>>

\* Time passes between page loads.
TickSteps == {1, TTL - 1}

Tick(dt) ==
    /\ pc \in {"idle", "done"}
    /\ ticks < MaxTicks
    /\ ticks' = ticks + 1
    /\ clock' = clock + dt
    /\ UNCHANGED <<pc, runs, cache, button, date_str, data, ui, shown, src,
                   fetches, last_fetch, secrets, ai_requests, ai_outcome,
                   fmtVars, scanVars, rankVars>>

---------------------------------------------------------------------------
(* Specifications *)

FmtIdle == fmt_in = None /\ fmt_out = <<>>
ScanIdle == probe = [i \in Offsets |-> "empty"] /\ scan = <<>>
RankIdle == rank_df = <<>> /\ rank_view = <<>>
PageIdle ==
    /\ pc = "idle"
    /\ runs = 0
    /\ clock = 0
    /\ ticks = 0
    /\ cache = [d \in Dates |-> NoEntry]
    /\ button = FALSE
    /\ date_str = <<>>
    /\ data = AllNone
    /\ ui = <<>>
    /\ shown = <<>>
    /\ src = NoAnswers
    /\ fetches = <<>>
    /\ last_fetch = [d \in Dates |-> [at |-> -1, value |-> AllNone]]
    /\ secrets = Unread
    /\ ai_requests = 0
    /\ ai_outcome = "none"

\* The page: page loads following one another within the validity of the
\* cache, with and without the AI button
Init == FmtIdle /\ ScanIdle /\ RankIdle /\ PageIdle

Next ==
    \/ \E click \in BOOLEAN, p \in ProbeScenarios : MainResolve(click, p)
    \/ \E a \in Answers : MainLoad(a)
    \/ MainRender
    \/ \E s \in SecretsConfigs, env \in AiAnswers : MainAI(s, env)

Spec == Init /\ [][Next]_vars

\* The page over time: page loads (without the AI button) with the clock
\* advancing between them
CacheAnswers ==
    [detail : {Raised, Frame(<<>>), Frame(Day2)},
     jg : {NoneFrame, Frame(JgSample)},
     yyb : {Frame(<<>>)}]

NextCache ==
    \/ \E p \in ProbeScenarios : MainResolve(FALSE, p)
    \/ \E a \in CacheAnswers : MainLoad(a)
    \/ MainRender
    \/ \E dt \in TickSteps : Tick(dt)

SpecCache == Init /\ [][NextCache]_vars

\* format_number on every input of FormatInputs
InitFormat ==
    /\ fmt_in \in FormatInputs
    /\ fmt_out = <<>>
    /\ ScanIdle /\ RankIdle /\ PageIdle

NextFormat == FormatCall

SpecFormat == InitFormat /\ [][NextFormat]_vars

\* find_latest_data on every assignment of probe outcomes to the offsets
InitResolver ==
    /\ probe \in [Offsets -> ProbeOutcomes]
    /\ scan = <<>>
    /\ FmtIdle /\ RankIdle /\ PageIdle

NextResolver == ScanRun

SpecResolver == InitResolver /\ [][NextResolver]_vars

\* the ranking on every frame of RankFrames
InitRank ==
    /\ rank_df \in RankFrames
    /\ rank_view = <<>>
    /\ FmtIdle /\ ScanIdle /\ PageIdle

NextRank == RankCall

SpecRank == InitRank /\ [][NextRank]_vars

---------------------------------------------------------------------------
(* The claims *)

Hits == {i \in Offsets : probe[i] = "nonempty"}
FirstHit == CHOOSE i \in Hits : \A j \in Hits : i <= j

\* C1: whatever the probes of the offsets 0..9 give, find_latest_data
\* returns the date of the smallest offset whose probe is non-empty, an
\* error counting as an empty result; with no non-empty probe it returns
\* (None, None); it never raises.
C1_ReturnsFirstNonEmpty ==
    scan # <<>> =>
        /\ ~scan[1].raised
        /\ IF Hits = {}
           THEN scan[1].date = <<>> /\ scan[1].display = <<>>
           ELSE /\ scan[1].date = <<Today - FirstHit>>
                /\ scan[1].display # <<>>
                /\ scan[1].display[1] = Today - FirstHit

C1_Witness ==
    /\ scan # <<>>
    /\ probe[0] = "error" /\ probe[1] = "empty" /\ probe[2] = "nonempty"
    /\ probe[3] = "nonempty" /\ probe[9] = "error"
    /\ scan[1].date = <<Today - 2>>

\* C8: the probes are issued in increasing offset order starting at
\* today, none is issued after a probe that came back non-empty, and a
\* scan issues at most 10 of them.
C8_ProbesInOrderStopAtHit ==
    scan # <<>> =>
        LET asked == scan[1].probes
        IN  /\ Len(asked) <= Horizon
            /\ Len(asked) >= 1
            /\ \A k \in 1..Len(asked) : asked[k] = Today - (k - 1)
            /\ \A k \in 1..(Len(asked) - 1) : probe[k - 1] # "nonempty"
            /\ Hits = {} => Len(asked) = Horizon

C8_Witness ==
    /\ scan # <<>>
    /\ probe[0] = "empty" /\ probe[1] = "error" /\ probe[2] = "empty"
    /\ probe[3] = "nonempty" /\ probe[5] = "nonempty"
    /\ scan[1].probes = <<Today, Today - 1, Today - 2, Today - 3>>

Abs(n) == IF n < 0 THEN -n ELSE n

\* The unit chosen from the magnitude of the value.
ByMagnitude(num) ==
    IF isna(num) THEN Text(0, 0, 0, "")
    ELSE LET sign == IF num.v < 0 THEN -1 ELSE 1
             m == Abs(num.v)
         IN  IF m >= Yi
             THEN [Fixed2(m, Yi, "yi") EXCEPT !.whole = sign * @]
             ELSE IF m >= Wan
             THEN [Fixed2(m, Wan, "wan") EXCEPT !.whole = sign * @]
             ELSE Text(num.v, 0, 2, "")

\* C6: format_number takes its unit from the magnitude of the value:
\* magnitude >= 100,000,000 gives value / 100,000,000 with the yi suffix,
\* else magnitude >= 10,000 gives value / 10,000 with the wan suffix, else
\* the raw value without unit; an absent input gives "0".
C6_UnitByMagnitude ==
    fmt_out # <<>> => fmt_out[1] = ByMagnitude(fmt_in)

\* The positions of the rows of df, descending by net-buy, rows with equal
\* net-buy in their original order, rows without a number last.
RECURSIVE StableDescending(_, _)
StableDescending(df, S) ==
    IF S = {} THEN <<>>
    ELSE LET i == CHOOSE x \in S :
                     \A y \in S : \/ df[x].net.v > df[y].net.v
                                   \/ (df[x].net.v = df[y].net.v /\ x <= y)
         IN  <<i>> \o StableDescending(df, S \ {i})

StableOrder(df) == StableDescending(df, NumIdx(df)) \o Ascending(NanIdx(df))

\* C7: the ranking is descending by numeric net-buy, rows with equal
\* net-buy keep their fetch order, rows whose net-buy does not parse come
\* after every row with a number, and the top entry is the first row of
\* that order.
C7_StableDescendingRanking ==
    rank_view # <<>> =>
        LET df == coerce(rank_df)
            o == head(StableOrder(df), TopN)
        IN  /\ rank_view[1].rank.order = o
            /\ rank_view[1].rank.top1.code = df[o[1]].code

\* The rows of df that are the first with their code.
FirstOfCode(df) ==
    {i \in 1..Len(df) : \A j \in 1..(i - 1) : df[j].code # df[i].code}

\* C10: the distinct-stock count is the number of different codes, not of
\* rows, and the ranking keeps every row: the table holds the first 10
\* rows of the sorted frame (all of them when there are fewer), each row
\* of the frame at most once and none dropped for sharing its code.
C10_CountByCodeRankByRow ==
    rank_view # <<>> =>
        LET v == rank_view[1]
            n == Len(rank_df)
        IN  /\ v.total_stocks = Cardinality(FirstOfCode(rank_df))
            /\ Len(v.rank.top10) = Min(TopN, n)
            /\ Len(v.rank.order) = Min(TopN, n)
            /\ \A k \in 1..Len(v.rank.order) : v.rank.order[k] \in 1..n
            /\ \A k, l \in 1..Len(v.rank.order) :
                  k # l => v.rank.order[k] # v.rank.order[l]
            /\ \A k \in 1..Len(v.rank.order) :
                  v.rank.top10[k].code = rank_df[v.rank.order[k]].code

C10_Witness ==
    /\ rank_view # <<>>
    /\ Len(rank_df) = 3
    /\ \A i \in 1..3 : rank_df[i].code = "600002"
    /\ rank_view[1].total_stocks = 1
    /\ Len(rank_view[1].rank.top10) = 3

\* An answer of the data source that gives no rows: an exception, None or
\* an empty frame.
Degraded(f) == f.status \in {"raise", "none"} \/ (f.status = "df" /\ f.rows = <<>>)

Zero == Text(0, 0, 2, "")

IsIn(e, seq) == \E k \in 1..Len(seq) : seq[k] = e

\* C2: when the disclosure fetch gave rows and a secondary fetch
\* (institutional summary, branch records) failed or came back empty, the
\* load does not fail: the disclosure records are returned, the metric of
\* that fetch is 0, and the metrics, the top entry and the table render.
C2_SecondaryFailureDegradesToZero ==
    /\ pc \in {"render", "ai", "done"}
    /\ ~Degraded(src.detail) /\ src.detail.status = "df"
    /\ (Degraded(src.jg) \/ Degraded(src.yyb))
    => /\ data.detail_df = src.detail
       /\ pc \in {"ai", "done"} =>
            /\ shown # <<>>
            /\ SubSeq(ui, 3, 2 + Len(Rendered)) = Rendered
            /\ Degraded(src.jg) => shown[1].jg_buy = Zero
            /\ Degraded(src.yyb) => shown[1].waizi_buy = Zero

PartialUi ==
    {"metrics", "top1", "table", "caption", "ai_button", "ai_config_error",
     "ai_config_example", "ai_success", "ai_heading", "ai_result", "ai_failure"}

\* C3: when the scan finds no day, or the disclosure fetch of the resolved
\* day raises or gives no rows, the page shows an error and stops: the
\* triple is all absent and no metrics, top entry, table or AI panel are
\* rendered in that page load.
C3_UnavailableStopsThePage ==
    /\ pc # "idle" /\ date_str = <<>> =>
          /\ pc = "done"
          /\ ui = <<"title", "error_no_day">>
          /\ fetches = <<>>
          /\ data = AllNone
          /\ shown = <<>>
          /\ ai_requests = 0
    /\ pc \notin {"idle", "load"} /\ date_str # <<>> /\ Degraded(src.detail) =>
          /\ pc = "done"
          /\ data = AllNone
          /\ fetches = <<"detail">>
          /\ ui # <<>> /\ ui[Len(ui)] = "error_no_detail"
          /\ \A k \in 1..Len(ui) : ui[k] \notin PartialUi
          /\ shown = <<>>
          /\ ai_requests = 0 /\ ai_outcome = "none"

C3_Witness ==
    /\ pc = "done"
    /\ button
    /\ src.detail.status = "df" /\ src.detail.rows = <<>>
    /\ ui = <<"title", "success_date", "error_no_detail">>
    /\ data = AllNone

CredentialsPresent ==
    secrets.file /\ secrets.section /\ secrets.api_key /\ secrets.base_url

\* C4: when the AI analysis is triggered without the credentials (api_key
\* and base_url), the page shows the configuration error with the setup
\* instructions, issues no chat-completion request, and ends in the
\* configuration-missing state, not with a failure message.
C4_MissingCredentialsIsConfigError ==
    pc = "done" /\ ai_outcome # "none" /\ ~CredentialsPresent =>
        /\ ai_requests = 0
        /\ ai_outcome = "config_missing"
        /\ IsIn("ai_config_error", ui) /\ IsIn("ai_config_example", ui)
        /\ ~IsIn("ai_failure", ui)

\* C5: a load of date D, for one hour after the body of get_lhb_data last
\* ran for D, returns what that run returned and issues no call to the
\* data source; a load of D with no such run, or one an hour or more after
\* it, issues the fetches again.
C5_CachedByDateForOneHour ==
    [][pc = "load" /\ pc' # "load" =>
          LET d == date_str[1]
          IN  IF last_fetch[d].at >= 0 /\ clock < last_fetch[d].at + TTL
              THEN /\ fetches' = <<>>
                   /\ data' = last_fetch[d].value
                   /\ last_fetch' = last_fetch
              ELSE /\ fetches' # <<>>
                   /\ fetches'[1] = "detail"
                   /\ last_fetch'[d].at = clock
                   /\ data' = last_fetch'[d].value]_vars

C5_Witness ==
    /\ runs = 2
    /\ pc = "render"
    /\ clock = TTL - 1
    /\ fetches = <<>>
    /\ last_fetch[date_str[1]].at = 0
    /\ data = last_fetch[date_str[1]].value
    /\ data.detail_df = Frame(Day2)

\* C9: one triggered AI analysis issues at most one chat-completion
\* request; when building the client or the request raises, a failure
\* message is added, no second request is made, and what the page already
\* rendered (metrics, top entry, table) stays as it was.
C9_OneRequestFailureIsLocal ==
    [][pc = "ai" =>
          /\ pc' = "done"
          /\ ai_requests' <= 1
          /\ shown' = shown /\ data' = data
          /\ SubSeq(ui', 1, Len(ui)) = ui
          /\ ai_outcome' = "failure" => ui' = ui \o <<"ai_failure">>
          /\ ai_outcome' = "result" => ai_requests' = 1]_vars

C9_Witness ==
    /\ pc = "done"
    /\ CredentialsPresent
    /\ ai_outcome = "failure"
    /\ ai_requests = 1
    /\ shown # <<>>
    /\ ui = <<"title", "success_date">> \o Rendered \o <<"ai_failure">>

=============================================================================
